---- MODULE Spec2Model ----
(***************************************************************************)
(* State-machine model of the keyword pipeline of bibliometry-tools:       *)
(*   - scripts/corpus-to-keywords.py : the period / batch controller and   *)
(*     the aggregator (a script: its top-level statements are the steps),  *)
(*   - src/domain_terminology_extraction.py : the document loader and the  *)
(*     TextRank4Keyword ranking engine.                                    *)
(* The file system (per-period csv tables, aggregated pickles) survives a  *)
(* terminated run; every other variable of the controller is process       *)
(* memory and is lost with the process.                                    *)
(***************************************************************************)
EXTENDS Integers, Sequences, FiniteSets, TLC

(***************************************************************************)
(* Bounds of the model                                                     *)
(***************************************************************************)
\* number of corpus files
MaxDocs == 3
\* number of invocations that may follow the first one (after a crash or a
\* completed run)
MaxRuns == 1

\* publication years that files may carry
Years == 1990..1992
\* values of the command line argument period_size
PeriodSizes == {1, 2}
\* values psutil.virtual_memory().free/40000 may take when it is evaluated
Cutoffs == {4, 16, 100}

(***************************************************************************)
(* Text: a word is a sequence of atoms (a single atom in a file; `corpus   *)
(* += doc` joins the last word of a batch and the first word of the next   *)
(* document without a separator, which gives words of several atoms).      *)
(***************************************************************************)
AtomLen(a) == CASE a = "court" -> 5 [] a = "recht" -> 5 [] OTHER -> 3

LowerAtom(a) == IF a = "Law" THEN "law" ELSE a

W(a) == <<a>>

\* str.lower() of a word
Lower(w) == [i \in 1..Len(w) |-> LowerAtom(w[i])]

RECURSIVE WordLen(_)
WordLen(w) == IF w = <<>> THEN 0 ELSE AtomLen(Head(w)) + WordLen(Tail(w))

RECURSIVE SumWordLen(_)
SumWordLen(ws) == IF ws = <<>> THEN 0 ELSE WordLen(Head(ws)) + SumWordLen(Tail(ws))

\* len(' '.join(words)), and len(corpus) of a corpus held as its words
CharLen(ws) == IF ws = <<>> THEN 0 ELSE SumWordLen(ws) + (Len(ws) - 1)

\* corpus += doc  (no separator: the boundary words merge)
Concat(corpus, doc) ==
    IF corpus = <<>> THEN doc
    ELSE IF doc = <<>> THEN corpus
    ELSE SubSeq(corpus, 1, Len(corpus) - 1)
         \o <<corpus[Len(corpus)] \o Head(doc)>>
         \o Tail(doc)

(***************************************************************************)
(* The corpus files a run may find, and the replacement tables             *)
(***************************************************************************)
\* lang is what langdetect.detect answers for the file's text
DocPool ==
    { [lang |-> "en", text |-> <<W("Law"), W("law"), W("court")>>],
      [lang |-> "en", text |-> <<W("law")>>],
      [lang |-> "de", text |-> <<W("recht")>>],
      [lang |-> "fr", text |-> <<W("loi")>>] }

\* replace_terms as its (key, value) pairs in iteration order; <<>> is ""
ReplaceTables ==
    { <<>>,
      << <<W("law"), <<>> >>, <<W("court"), W("law")>> >> }

Keys(rt) == {rt[i][1] : i \in 1..Len(rt)}

\* re.sub(key, value, text) followed by split(), at word granularity
SubWord(words, key, value) ==
    LET repl == [i \in 1..Len(words) |-> IF words[i] = key THEN value ELSE words[i]]
    IN  SelectSeq(repl, LAMBDA w : w # <<>>)

RECURSIVE ApplyReplace(_, _)
ApplyReplace(words, rt) ==
    IF rt = <<>> THEN words
    ELSE ApplyReplace(SubWord(words, Head(rt)[1], Head(rt)[2]), Tail(rt))

get_words_from_file(file, rt) == ApplyReplace(file.text, rt)

(***************************************************************************)
(* Numbers: a weight is a rational n/d in lowest terms with d > 0          *)
(***************************************************************************)
RECURSIVE GCD(_, _)
GCD(a, b) == IF b = 0 THEN a ELSE GCD(b, a % b)

Abs(x) == IF x < 0 THEN 0 - x ELSE x

Rat(n, d) ==
    LET g == GCD(Abs(n), Abs(d))
        s == IF d < 0 THEN 0 - 1 ELSE 1
    IN  [n |-> (s * n) \div g, d |-> (s * d) \div g]

RECURSIVE SumSeq(_)
SumSeq(s) == IF s = <<>> THEN 0 ELSE Head(s) + SumSeq(Tail(s))

\* sum(row)/len(row)
Mean(row) == Rat(SumSeq(row), Len(row))

EmptyMap == [x \in {} |-> 0]

(***************************************************************************)
(* The ranking engine as the controller sees it: a mapping keyword ->      *)
(* weight for one corpus string.  The script calls a language-aware        *)
(* TextRank4Keyword(lang) with unigram/bigram/trigram_cand_pos arguments;  *)
(* the class of domain_terminology_extraction.py takes neither, so the     *)
(* call is modelled by its contract: every word is taken as a candidate,   *)
(* is lower-cased (lower=True), and weighs its number of occurrences.      *)
(***************************************************************************)
AnalyzeWeights(corpus) ==
    LET terms == {Lower(corpus[i]) : i \in 1..Len(corpus)}
    IN  [t \in terms |-> Cardinality({i \in 1..Len(corpus) : Lower(corpus[i]) = t})]

(***************************************************************************)
(* Floating point values of the engine: exact rationals, and NaN           *)
(***************************************************************************)
Fin(n, d) == [k |-> "fin", n |-> Rat(n, d).n, d |-> Rat(n, d).d]

NaN == [k |-> "nan", n |-> 0, d |-> 1]

IsNaN(a) == a.k = "nan"

FAdd(a, b) ==
    IF IsNaN(a) \/ IsNaN(b) THEN NaN
    ELSE LET l == (a.d \div GCD(a.d, b.d)) * b.d
         IN  Fin(a.n * (l \div a.d) + b.n * (l \div b.d), l)

FMul(a, b) ==
    IF IsNaN(a) \/ IsNaN(b) THEN NaN
    ELSE LET g1 == GCD(Abs(a.n), b.d)
             g2 == GCD(Abs(b.n), a.d)
         IN  Fin((a.n \div g1) * (b.n \div g2), (a.d \div g2) * (b.d \div g1))

FNeg(a) == IF IsNaN(a) THEN NaN ELSE Fin(0 - a.n, a.d)

FSub(a, b) == FAdd(a, FNeg(b))

FAbs(a) == IF IsNaN(a) THEN NaN ELSE Fin(Abs(a.n), a.d)

\* a < b; False when either is NaN
FLt(a, b) == ~IsNaN(a) /\ ~IsNaN(b) /\ a.n * b.d < b.n * a.d

\* a sum that has no value for an empty array
RECURSIVE FSumNoStart(_)
FSumNoStart(s) ==
    IF s = <<>> THEN NaN
    ELSE IF Len(s) = 1 THEN Head(s)
    ELSE FAdd(Head(s), FSumNoStart(Tail(s)))

RECURSIVE FSum(_)
FSum(s) == IF s = <<>> THEN Fin(0, 1) ELSE FAdd(Head(s), FSum(Tail(s)))

(***************************************************************************)
(* The ranking engine, TextRank4Keyword                                    *)
(***************************************************************************)
\* total number of tokens of an analysed text
MaxTokens == 3

\* self.steps
steps == 10
\* self.d
damping == Fin(17, 20)
\* self.min_diff
min_diff == Fin(1, 100000)

\* tokens as the tagger annotates them (text, pos_, is_stop)
TokenPool ==
    { [text |-> "Law", pos |-> "NOUN", is_stop |-> FALSE],
      [text |-> "law", pos |-> "NOUN", is_stop |-> FALSE],
      [text |-> "is",  pos |-> "VERB", is_stop |-> TRUE],
      [text |-> "red", pos |-> "ADJ",  is_stop |-> FALSE] }

\* analyze calls made on one engine
MaxCalls == 2
\* a further call is followed for the texts of up to MaxRepeatTokens tokens
MaxRepeatTokens == 1

\* spacy.lang.en.stop_words.STOP_WORDS
STOP_WORDS == {"is"}
\* values of analyze's stopwords argument
StopwordLists == {{}, {"law"}}

\* line 146, doc = self.nlp(text): a token is a stop word when the tagger
\* says so or when the lexeme of its text is flagged in self.nlp.vocab
Tag(text, flags) ==
    [s \in 1..Len(text) |-> [i \in 1..Len(text[s]) |->
        [text[s][i] EXCEPT !.is_stop = @ \/ text[s][i].text \in flags]]]

\* analyze(candidate_pos=['NOUN', 'VERB'])
CandidatePos == {"NOUN", "VERB"}
WindowSizes == {2, 3}

\* what np.divide(..., where=norm != 0) may leave in the cells it does not
\* write (out is not given: the cells are uninitialized memory and may hold
\* any bit pattern; two of them are followed here, zero and a NaN)
JunkValues == {Fin(0, 1), NaN}

\* doc.sents: every split of up to MaxTokens tokens into sentences
RECURSIVE Splits(_)
Splits(toks) ==
    IF toks = <<>> THEN {<<>>}
    ELSE UNION {{<<SubSeq(toks, 1, n)>> \o rest :
                    rest \in Splits(SubSeq(toks, n + 1, Len(toks)))} :
                n \in 1..Len(toks)}

\* the number of tokens of the first n sentences of a text
RECURSIVE NTokens(_, _)
NTokens(text, n) == IF n = 0 THEN 0 ELSE NTokens(text, n - 1) + Len(text[n])

Texts ==
    UNION {Splits(toks) : toks \in UNION {[1..n -> TokenPool] : n \in 0..MaxTokens}}

Qualifies(tok, candidate_pos) == tok.pos \in candidate_pos /\ tok.is_stop = FALSE

\* a selection that keeps every token of the sentence
UnigramsUnfiltered(sent, candidate_pos, lower) ==
    [i \in 1..Len(sent) |->
        IF lower THEN <<LowerAtom(sent[i].text)>> ELSE <<sent[i].text>>]

\* lines 41-48
Unigrams(sent, candidate_pos, lower) ==
    LET kept == SelectSeq(sent, LAMBDA tok : Qualifies(tok, candidate_pos))
    IN  [i \in 1..Len(kept) |->
            IF lower THEN <<LowerAtom(kept[i].text)>> ELSE <<kept[i].text>>]

\* lines 49-56 (n = 2) and 57-65 (n = 3): the terms appended for the runs of
\* n adjacent qualifying tokens, in sentence order
RECURSIVE NGrams(_, _, _, _, _)
NGrams(sent, candidate_pos, lower, n, i) ==
    IF i > Len(sent) - (n - 1) THEN <<>>
    ELSE LET ok == \A k \in 0..(n - 1) : Qualifies(sent[i + k], candidate_pos)
             term == IF lower THEN <<LowerAtom(sent[i].text)>>
                     ELSE [k \in 1..n |-> sent[i + k - 1].text]
         IN  (IF ok THEN <<term>> ELSE <<>>)
             \o NGrams(sent, candidate_pos, lower, n, i + 1)

\* lines 35-67
sentence_segment(doc, candidate_pos, lower, bigrams, trigrams) ==
    [s \in 1..Len(doc) |->
        Unigrams(doc[s], candidate_pos, lower)
        \o (IF bigrams THEN NGrams(doc[s], candidate_pos, lower, 2, 1) ELSE <<>>)
        \o (IF trigrams THEN NGrams(doc[s], candidate_pos, lower, 3, 1) ELSE <<>>)]

RECURSIVE Flatten(_)
Flatten(ss) == IF ss = <<>> THEN <<>> ELSE Head(ss) \o Flatten(Tail(ss))

RECURSIVE Distinct(_, _)
Distinct(ws, seen) ==
    IF ws = <<>> THEN seen
    ELSE Distinct(Tail(ws),
                  IF \E i \in 1..Len(seen) : seen[i] = Head(ws)
                  THEN seen ELSE Append(seen, Head(ws)))

\* lines 69-78: the words in first-seen order; the index of vocab[i] is i - 1
get_vocab(sentences) == Distinct(Flatten(sentences), <<>>)

\* pairs of a window that reaches one position further
PairsOfWiderWindow(sentence, window_size) ==
    {<<sentence[ij[1]], sentence[ij[2]]>> :
        ij \in {p \in (1..Len(sentence)) \X (1..Len(sentence)) :
                   /\ p[2] \in (p[1] + 1)..(p[1] + window_size)
                   /\ p[2] <= Len(sentence)}}

\* lines 84-90, for one sentence
PairsOf(sentence, window_size) ==
    {<<sentence[ij[1]], sentence[ij[2]]>> :
        ij \in {p \in (1..Len(sentence)) \X (1..Len(sentence)) :
                   /\ p[2] \in (p[1] + 1)..(p[1] + window_size - 1)
                   /\ p[2] <= Len(sentence)}}

\* lines 80-91 (the list holds each pair once; only membership is read)
get_token_pairs(window_size, sentences) ==
    UNION {PairsOf(sentences[s], window_size) : s \in 1..Len(sentences)}

\* lines 99-103
RawMatrix(vocab, token_pairs) ==
    [i \in 1..Len(vocab) |-> [j \in 1..Len(vocab) |->
        IF <<vocab[i], vocab[j]>> \in token_pairs THEN 1 ELSE 0]]

\* lines 93-94: a + a.T - np.diag(a.diagonal())
symmetrize(a) ==
    [i \in 1..Len(a) |-> [j \in 1..Len(a) |->
        a[i][j] + a[j][i] - (IF i = j THEN a[i][i] ELSE 0)]]

RECURSIVE ColSum(_, _, _)
ColSum(g, j, i) == IF i = 0 THEN 0 ELSE g[i][j] + ColSum(g, j, i - 1)

\* line 109: np.sum(g, axis=0)
Norm(g) == [j \in 1..Len(g) |-> ColSum(g, j, Len(g))]

\* line 110: np.divide(g, norm, where=norm != 0)
Divide(g, norm, junk) ==
    [i \in 1..Len(g) |-> [j \in 1..Len(g) |->
        IF norm[j] # 0 THEN Fin(g[i][j], norm[j]) ELSE junk]]

\* lines 96-112
get_matrix(vocab, token_pairs, junk) ==
    LET g == symmetrize(RawMatrix(vocab, token_pairs))
    IN  Divide(g, Norm(g), junk)

HasZeroColumn(vocab, token_pairs) ==
    LET norm == Norm(symmetrize(RawMatrix(vocab, token_pairs)))
    IN  \E j \in 1..Len(vocab) : norm[j] = 0

\* np.dot(g, pr)[i]
Dot(g, v, i) == FSum([j \in 1..Len(v) |-> FMul(g[i][j], v[j])])

\* an update without the (1 - d) term
UpdateDampedOnly(g, v) ==
    [i \in 1..Len(v) |-> FMul(damping, Dot(g, v, i))]

\* line 166: (1 - self.d) + self.d * np.dot(g, pr)
Update(g, v) ==
    [i \in 1..Len(v) |->
        FAdd(FSub(Fin(1, 1), damping), FMul(damping, Dot(g, v, i)))]

\* a scaling that takes every term of two words or more as a bigram
ScaledAsBigram(term, weight) ==
    IF Len(term) >= 2 THEN FMul(Fin(4, 1), weight) ELSE weight

\* lines 117-123: the factor of a term of len(term.split()) words
Scaled(term, weight) ==
    IF Len(term) = 2 THEN FMul(Fin(4, 1), weight)
    ELSE IF Len(term) = 3 THEN FMul(Fin(6, 1), weight)
    ELSE weight

\* lines 114-124 (as a mapping; the OrderedDict is sorted by weight)
get_weights(nw) == [t \in DOMAIN nw |-> Scaled(t, nw[t])]

(***************************************************************************)
(* State                                                                   *)
(***************************************************************************)
VARIABLES
    \* inputs of the run: the corpus directory and what the metadata table
    \* and the identifier of each file say of its year, the start-up
    \* conditions, argv[2], the replacement file
    corpus_files, is_dir, has_replace, has_md, period_size, replace_terms,
    \* file system: per-period tables, aggregated matrices, output directory
    csv, pkl, output_dir,
    \* process memory of the controller
    years_files, disc_i,
    pc, year_min, year_max, year, period_start, period_end, period,
    period_list, files, file_i, kw_weights, all_docs, lang_i, docs, cutoff,
    corpus, agg_i,
    \* history (not program state)
    run, crashed, csv_at_start, n_detect, n_analyze, closed, bucket, hist,
    hist_of,
    \* the engine: the stop flags of self.nlp.vocab, the stopwords argument,
    \* the tagged text (doc), the number of the analyze call, and (history)
    \* the tagged text and the mapping of the call before
    lexeme_stop, e_stopwords, e_doc, calls, prev,
    \* the engine: arguments of analyze, its locals, self.node_weight and
    \* the mapping get_weights returns
    e_pc, e_text, e_window, e_lower, e_bigrams, e_trigrams, sentences, vocab,
    token_pairs, g_norm, pr, previous_pr, epoch, node_weight, e_weights,
    \* get_replace_dict_from_file: the rows csv.reader yields, the position
    \* of the loop, the dictionary being built
    r_pc, r_rows, r_i, replace_terms_dict

rvars == <<r_pc, r_rows, r_i, replace_terms_dict>>
ecall == <<lexeme_stop, e_stopwords, e_doc, calls, prev>>
evars == <<lexeme_stop, e_stopwords, e_doc, calls, prev, e_pc, e_text, e_window, e_lower, e_bigrams, e_trigrams, sentences,
           vocab, token_pairs, g_norm, pr, previous_pr, epoch, node_weight,
           e_weights>>
cvars == <<corpus_files, is_dir, has_replace, has_md, output_dir, disc_i,
           years_files, period_size, replace_terms, csv, pkl, pc, year_min,
           year_max, year, period_start, period_end, period, period_list,
           files, file_i, kw_weights, all_docs, lang_i, docs, cutoff, corpus,
           agg_i, run, crashed, csv_at_start, n_detect, n_analyze, closed,
           bucket, hist, hist_of>>
inputs == <<corpus_files, is_dir, has_replace, has_md, period_size, replace_terms>>
disk == <<csv, pkl, output_dir>>
found == <<years_files, disc_i>>
loopvars == <<year, period_start, period_end, period, period_list, files>>
langvars == <<lang_i, docs, cutoff, corpus>>
history == <<run, crashed, csv_at_start, n_detect, n_analyze, closed, bucket, hist,
             hist_of>>
vars == <<corpus_files, is_dir, has_replace, has_md, output_dir, disc_i,
          years_files, period_size, replace_terms, csv, pkl, pc, year_min,
          year_max, year, period_start, period_end, period, period_list,
          files, file_i, kw_weights, all_docs, lang_i, docs, cutoff, corpus,
          agg_i, run, crashed, csv_at_start, n_detect, n_analyze, closed,
          bucket, hist, hist_of, lexeme_stop, e_stopwords, e_doc, calls, prev,
          e_pc, e_text, e_window, e_lower, e_bigrams,
          e_trigrams, sentences, vocab, token_pairs, g_norm, pr, previous_pr,
          epoch, node_weight, e_weights, r_pc, r_rows, r_i,
          replace_terms_dict>>

\* for lang in ["de", "en"]  (processing) and  for lang in ["en", "de"]
\* (aggregation)
Langs == <<"de", "en">>
AggLangs == <<"en", "de">>

NoDocs == [l \in {"de", "en"} |-> <<>>]
NoWeights == [l \in {"de", "en"} |-> EmptyMap]

\* a corpus file: md is the year int(pubyear) gives for the file's DOI in
\* the metadata table (0: the lookup raises TypeError), id is the year the
\* pattern of line 50 finds in the DOI (0: search returns None), doc is the
\* file's content
FilePool ==
    {[md |-> y, id |-> 0, doc |-> d] : y \in Years, d \in DocPool}
    \cup {[md |-> 0, id |-> 1991, doc |-> [lang |-> "en", text |-> <<W("law")>>]],
          [md |-> 1990, id |-> 1991, doc |-> [lang |-> "en", text |-> <<W("law")>>]],
          [md |-> 0, id |-> 0, doc |-> [lang |-> "en", text |-> <<W("law")>>]]}

\* the year a file is filed under (0: none)
YearOf(file) == IF file.md # 0 THEN file.md ELSE file.id

\* os.listdir(corpus_dir), sorted by file name; the files that have a year
\* are taken in the order of their years (the order of two files of
\* different years has no effect)
Corpora ==
    LET seqs == UNION {[1..n -> FilePool] : n \in 1..MaxDocs}
    IN  {s \in seqs :
            \A i, j \in 1..Len(s) :
                (i < j /\ YearOf(s[i]) # 0 /\ YearOf(s[j]) # 0)
                    => YearOf(s[i]) <= YearOf(s[j])}

\* years_files = {}  (a year without file is no key)
NoFiles == [y \in Years |-> <<>>]

\* process memory right after the interpreter starts
Fresh ==
    /\ pc = "start"
    /\ years_files = NoFiles /\ disc_i = 0
    /\ year_min = 0 /\ year_max = 0 /\ year = 0
    /\ period_start = <<>> /\ period_end = 0 /\ period = <<>>
    /\ period_list = <<>> /\ files = <<>> /\ file_i = 0
    /\ kw_weights = NoWeights /\ all_docs = NoDocs
    /\ lang_i = 0 /\ docs = <<>> /\ cutoff = 0 /\ corpus = <<>>
    /\ agg_i = 0
    /\ n_detect = 0 /\ n_analyze = 0 /\ closed = EmptyMap
    /\ bucket = <<>> /\ hist = EmptyMap /\ hist_of = <<>>

\* the engine before analyze is called
NoPrev == [doc |-> <<>>, weights |-> EmptyMap]

EngineFresh ==
    /\ e_doc = <<>>
    /\ sentences = <<>> /\ vocab = <<>> /\ token_pairs = {}
    /\ g_norm = <<>> /\ pr = <<>> /\ previous_pr = Fin(0, 1) /\ epoch = 0
    /\ node_weight = EmptyMap /\ e_weights = EmptyMap

EngineOff ==
    /\ e_pc = "off" /\ e_text = <<>> /\ e_window = 0 /\ e_lower = FALSE
    /\ lexeme_stop = {} /\ e_stopwords = {} /\ calls = 0 /\ prev = NoPrev
    /\ e_bigrams = FALSE /\ e_trigrams = FALSE
    /\ EngineFresh

\* get_replace_dict_from_file is not being called
ReaderOff ==
    /\ r_pc = "off" /\ r_rows = <<>> /\ r_i = 0 /\ replace_terms_dict = <<>>

Init ==
    /\ EngineOff
    /\ ReaderOff
    /\ corpus_files \in Corpora
    /\ is_dir \in BOOLEAN
    /\ has_replace \in BOOLEAN
    /\ has_md \in BOOLEAN
    \* a run that fails a start-up check is followed for the corpora of one
    \* file (it never lists the directory)
    /\ (is_dir /\ has_replace /\ has_md) \/ Len(corpus_files) = 1
    /\ period_size \in PeriodSizes
    /\ replace_terms \in ReplaceTables
    /\ csv = EmptyMap /\ pkl = EmptyMap /\ output_dir = FALSE
    /\ Fresh
    /\ run = 0 /\ crashed = FALSE /\ csv_at_start = EmptyMap

(***************************************************************************)
(* The controller, scripts/corpus-to-keywords.py                           *)
(***************************************************************************)
\* f"{period_start}-{period_end}" if period_start != period_end else str(period_start)
Label(s, e) == IF s # e THEN <<s, e>> ELSE <<s>>

\* years_files.keys()
YearKeys == {y \in Years : years_files[y] # <<>>}

Min(S) == CHOOSE x \in S : \A y \in S : x <= y
Max(S) == CHOOSE x \in S : \A y \in S : x >= y

\* range(year_min, year_max): the years the loop visits
LoopYears(lo, hi) == lo..(hi - 1)

\* a skip check that wants the tables of both languages
AlreadyProcessedBoth(p) == <<p, "en">> \in DOMAIN csv /\ <<p, "de">> \in DOMAIN csv

\* a skip check that looks for the English table only
AlreadyProcessedEnglish(p) == <<p, "en">> \in DOMAIN csv

\* os.path.isfile of a period's table for either language
AlreadyProcessed(p) == <<p, "en">> \in DOMAIN csv \/ <<p, "de">> \in DOMAIN csv

\* start-up checks that do not look for the metadata file
StartupOkWithoutMetadata == is_dir /\ has_replace

\* lines 17, 27, 33: the corpus path is a directory, the replacement file
\* and the metadata file exist
StartupOk == is_dir /\ has_replace /\ has_md

\* lines 14-41: command line, start-up checks (a failed one raises), the
\* replacement table and the metadata table are read
Startup ==
    /\ pc = "start"
    /\ IF StartupOk
       THEN /\ pc' = "discover"
            /\ disc_i' = 1
       ELSE /\ pc' = "aborted"
            /\ UNCHANGED disc_i
    /\ csv_at_start' = csv
    /\ UNCHANGED <<evars, rvars>>
    /\ UNCHANGED <<inputs, years_files, disk, year_min, year_max, loopvars,
                   file_i, kw_weights, all_docs, langvars, agg_i, run,
                   crashed, n_detect, n_analyze, closed, bucket, hist,
                   hist_of>>

\* lines 43-58: the publication year of one corpus file.  int(pubyear)
\* raises TypeError when the metadata table has no single row for the DOI;
\* the handler searches the DOI for a year, and p.search(doi).groups()
\* raises AttributeError when there is none (search returns None): that
\* exception is raised inside the handler and ends the run.
Discover ==
    /\ pc = "discover"
    /\ disc_i <= Len(corpus_files)
    /\ LET file == corpus_files[disc_i]
           pubyear == YearOf(file)
       IN  IF file.md = 0 /\ file.id = 0
           THEN /\ pc' = "aborted"
                /\ UNCHANGED <<years_files, disc_i>>
           ELSE /\ years_files' = [years_files EXCEPT ![pubyear] = Append(@, file.doc)]
                /\ disc_i' = disc_i + 1
                /\ UNCHANGED pc
    /\ UNCHANGED <<evars, rvars>>
    /\ UNCHANGED <<inputs, disk, year_min, year_max, loopvars, file_i,
                   kw_weights, all_docs, langvars, agg_i, history>>

\* lines 60-69: year range, output directory
Start ==
    /\ pc = "discover"
    /\ disc_i > Len(corpus_files)
    /\ year_min' = Min(YearKeys)
    /\ year_max' = Max(YearKeys)
    /\ year' = Min(YearKeys)
    /\ output_dir' = TRUE
    /\ pc' = "years"
    /\ UNCHANGED <<evars, rvars>>
    /\ UNCHANGED <<inputs, found, csv, pkl, period_start, period_end, period,
                   period_list, files, file_i, kw_weights, all_docs, langvars,
                   agg_i, history>>

\* lines 73-96: one iteration of `for year in range(year_min, year_max)` up
\* to the point where the period is skipped, left open or taken up
YearStep ==
    /\ pc = "years"
    /\ year \in LoopYears(year_min, year_max)
    /\ LET opening == period_start = <<>>
           ps == IF opening THEN <<year>> ELSE period_start
           pe == IF opening THEN year + (period_size - 1) ELSE period_end
           p  == IF opening THEN Label(year, pe) ELSE period
           pl == IF opening THEN Append(period_list, p) ELSE period_list
           f0 == IF opening THEN <<>> ELSE files
           f1 == f0 \o years_files[year]
       IN  /\ period_end' = pe
           /\ period' = p
           /\ period_list' = pl
           /\ files' = f1
           /\ IF year = pe \/ year = year_max
              THEN /\ period_start' = <<>>
                   /\ closed' = (p :> f1) @@ closed
                   /\ IF AlreadyProcessed(p)
                      THEN /\ year' = year + 1
                           /\ UNCHANGED <<pc, file_i, kw_weights, all_docs>>
                      ELSE /\ pc' = "classify"
                           /\ file_i' = 1
                           /\ kw_weights' = NoWeights
                           /\ all_docs' = NoDocs
                           /\ UNCHANGED year
              ELSE /\ period_start' = ps
                   /\ year' = year + 1
                   /\ UNCHANGED <<pc, file_i, kw_weights, all_docs, closed>>
    /\ UNCHANGED <<evars, rvars>>
    /\ UNCHANGED <<inputs, found, disk, year_min, year_max, langvars, agg_i, run,
                   crashed, csv_at_start, n_detect, n_analyze, bucket, hist,
                   hist_of>>

\* a routing that files a document of any other language as English
RouteUnsupportedAsEnglish(buckets, lang, doc) ==
    IF lang = "de" THEN [buckets EXCEPT !["de"] = Append(@, doc)]
    ELSE [buckets EXCEPT !["en"] = Append(@, doc)]

\* lines 103-107: a document of an unsupported language is left out, any
\* other is appended to the list of its language
Route(buckets, lang, doc) ==
    IF lang # "de" /\ lang # "en" THEN buckets
    ELSE [buckets EXCEPT ![lang] = Append(@, doc)]

\* lines 98-107: load one file of the period, detect its language, route it.
\* langdetect.detect raises LangDetectException ("No features in text") for
\* a text without words; the script does not catch it and the run ends.
Classify ==
    /\ pc = "classify"
    /\ file_i <= Len(files)
    /\ LET file == files[file_i]
           doc == get_words_from_file(file, replace_terms)
           lang == file.lang
       IN  IF doc = <<>>
           THEN /\ pc' = "aborted"
                /\ UNCHANGED <<all_docs, file_i>>
           ELSE /\ all_docs' = Route(all_docs, lang, doc)
                /\ file_i' = file_i + 1
                /\ UNCHANGED pc
    /\ n_detect' = n_detect + 1
    /\ UNCHANGED <<evars, rvars>>
    /\ UNCHANGED <<inputs, found, disk, year_min, year_max, loopvars, kw_weights,
                   langvars, agg_i, run, crashed, csv_at_start, n_analyze,
                   closed, bucket, hist, hist_of>>

\* lines 109-113: next language of `for lang in ["de", "en"]`; the cutoff is
\* taken from the free memory of that moment
BeginLang ==
    /\ pc \in {"classify", "nextlang"}
    /\ pc = "classify" => file_i > Len(files)
    /\ lang_i < Len(Langs)
    /\ lang_i' = lang_i + 1
    /\ docs' = all_docs[Langs[lang_i + 1]]
    /\ bucket' = all_docs[Langs[lang_i + 1]]
    /\ hist' = EmptyMap
    /\ hist_of' = <<period, Langs[lang_i + 1]>>
    /\ cutoff' \in Cutoffs
    /\ pc' = "batch"
    /\ UNCHANGED <<evars, rvars>>
    /\ UNCHANGED <<inputs, found, disk, year_min, year_max, loopvars, file_i,
                   kw_weights, all_docs, corpus, agg_i, run, crashed,
                   csv_at_start, n_detect, n_analyze, closed>>

\* a loop that leaves out a document that would take the corpus over the
\* limit
RECURSIVE FillDroppingOverflow(_, _, _)
FillDroppingOverflow(c, ds, limit) ==
    IF Len(ds) > 0 /\ CharLen(c) < limit
    THEN IF c # <<>> /\ CharLen(Concat(c, Head(ds))) > limit
         THEN FillDroppingOverflow(c, Tail(ds), limit)
         ELSE FillDroppingOverflow(Concat(c, Head(ds)), Tail(ds), limit)
    ELSE <<c, ds>>

\* lines 115-120: the inner while loop
RECURSIVE Fill(_, _, _)
Fill(c, ds, limit) ==
    IF Len(ds) > 0 /\ CharLen(c) < limit
    THEN Fill(Concat(c, Head(ds)), Tail(ds), limit)
    ELSE <<c, ds>>

\* lines 129-131, for one keyword of a batch
AccumulateOne(kws, kw, weight) ==
    LET appended == IF kw \in DOMAIN kws
                    THEN [kws EXCEPT ![kw] = Append(@, weight)]
                    ELSE kws
    IN  (kw :> <<weight>>) @@ appended

\* lines 128-131
RECURSIVE Accumulate(_, _, _)
Accumulate(kws, weights, todo) ==
    IF todo = {} THEN kws
    ELSE LET kw == CHOOSE k \in todo : TRUE
         IN  Accumulate(AccumulateOne(kws, kw, weights[kw]), weights, todo \ {kw})

\* what the weights of every sub-batch of the bucket are, keyword by keyword
Record(h, weights) ==
    [kw \in DOMAIN h \cup DOMAIN weights |->
        IF kw \notin DOMAIN weights THEN h[kw]
        ELSE IF kw \in DOMAIN h THEN Append(h[kw], weights[kw])
        ELSE <<weights[kw]>>]

\* lines 114-134: one sub-batch
Batch ==
    /\ pc = "batch"
    /\ Len(docs) > 0
    /\ LET filled == Fill(<<>>, docs, cutoff)
           lang == Langs[lang_i]
           weights == AnalyzeWeights(filled[1])
       IN  /\ corpus' = filled[1]
           /\ docs' = filled[2]
           /\ all_docs' = [all_docs EXCEPT ![lang] = filled[2]]
           /\ kw_weights' = [kw_weights EXCEPT
                                ![lang] = Accumulate(@, weights, DOMAIN weights)]
           /\ hist' = Record(hist, weights)
    /\ n_analyze' = n_analyze + 1
    /\ UNCHANGED <<evars, rvars>>
    /\ UNCHANGED <<inputs, found, disk, pc, year_min, year_max, loopvars, file_i,
                   lang_i, cutoff, agg_i, run, crashed, csv_at_start,
                   n_detect, closed, bucket, hist_of>>

\* lines 139-141: the rows of the table
Table(kws) == [kw \in DOMAIN kws |-> Mean(kws[kw])]

\* a loop that may be left while documents remain
BucketDoneAnytime == TRUE

\* line 114: `while len(docs) > 0` is left
BucketDone == Len(docs) = 0

\* lines 136-141: the table of the language is written if it has keywords;
\* then the next language, or the next year
Persist ==
    /\ pc = "batch"
    /\ BucketDone
    /\ LET lang == Langs[lang_i]
           keywords == DOMAIN kw_weights[lang]
       IN  csv' = IF keywords # {}
                  THEN (<<period, lang>> :> Table(kw_weights[lang])) @@ csv
                  ELSE csv
    /\ IF lang_i < Len(Langs)
       THEN /\ pc' = "nextlang"
            /\ UNCHANGED <<year, lang_i>>
       ELSE /\ pc' = "years"
            /\ year' = year + 1
            /\ lang_i' = 0
    \* cutoff and corpus are assigned again (lines 113, 115) before they are read
    /\ cutoff' = 0
    /\ corpus' = <<>>
    /\ bucket' = <<>>
    /\ UNCHANGED <<evars, rvars>>
    /\ UNCHANGED <<inputs, found, pkl, output_dir, year_min, year_max, period_start, period_end,
                   period, period_list, files, file_i, kw_weights, all_docs,
                   docs, agg_i, run, crashed, csv_at_start, n_detect,
                   n_analyze, closed, hist, hist_of>>

\* line 73 exhausted, line 145
EndOfYears ==
    /\ pc = "years"
    /\ year \notin LoopYears(year_min, year_max)
    /\ pc' = "aggregate"
    /\ agg_i' = 1
    /\ UNCHANGED <<evars, rvars>>
    /\ UNCHANGED <<inputs, found, disk, year_min, year_max, loopvars, file_i,
                   kw_weights, all_docs, langvars, history>>

\* the grid without the ignore_list test of line 158
GridUnfiltered(lang) ==
    LET present == {i \in 1..Len(period_list) : <<period_list[i], lang>> \in DOMAIN csv}
        rows == UNION {DOMAIN csv[<<period_list[i], lang>>] : i \in present}
    IN  [kw \in rows |->
            LET cols == {period_list[i] : i \in {j \in present :
                             kw \in DOMAIN csv[<<period_list[j], lang>>]}}
            IN  [p \in cols |-> csv[<<p, lang>>][kw]]]

\* lines 147-163: all_kw_weights[lang] after the loop over period_list
Grid(lang) ==
    LET present == {i \in 1..Len(period_list) : <<period_list[i], lang>> \in DOMAIN csv}
        ignore_list == Keys(replace_terms)
        rows == UNION {DOMAIN csv[<<period_list[i], lang>>] : i \in present}
        kept == {kw \in rows : kw \notin ignore_list}
    IN  [kw \in kept |->
            LET cols == {period_list[i] : i \in {j \in present :
                             kw \in DOMAIN csv[<<period_list[j], lang>>]}}
            IN  [p \in cols |-> csv[<<p, lang>>][kw]]]

\* an aggregation that writes an empty table for every period/language
\* that has none
AggregateFillingIn ==
    /\ pc = "aggregate"
    /\ agg_i <= Len(AggLangs)
    /\ LET lang == AggLangs[agg_i]
           grid == Grid(lang)
           missing == {f \in {<<period_list[i], lang>> : i \in 1..Len(period_list)} :
                          f \notin DOMAIN csv}
       IN  /\ pkl' = IF DOMAIN grid # {} THEN (lang :> grid) @@ pkl ELSE pkl
           /\ csv' = [f \in missing |-> EmptyMap] @@ csv
    /\ agg_i' = agg_i + 1
    /\ pc' = IF agg_i = Len(AggLangs) THEN "done" ELSE "aggregate"
    /\ UNCHANGED <<evars, rvars>>
    /\ UNCHANGED <<inputs, found, output_dir, year_min, year_max, loopvars,
                   file_i, kw_weights, all_docs, langvars, history>>

\* lines 146-172 for one language of `for lang in ["en", "de"]`
Aggregate ==
    /\ pc = "aggregate"
    /\ agg_i <= Len(AggLangs)
    /\ LET lang == AggLangs[agg_i]
           grid == Grid(lang)
       IN  pkl' = IF DOMAIN grid # {} THEN (lang :> grid) @@ pkl ELSE pkl
    /\ agg_i' = agg_i + 1
    /\ pc' = IF agg_i = Len(AggLangs) THEN "done" ELSE "aggregate"
    /\ UNCHANGED <<evars, rvars>>
    /\ UNCHANGED <<inputs, found, csv, output_dir, year_min, year_max, loopvars, file_i,
                   kw_weights, all_docs, langvars, history>>

\* process memory of a new interpreter
Reset ==
    /\ pc' = "start"
    /\ years_files' = NoFiles /\ disc_i' = 0
    /\ year_min' = 0 /\ year_max' = 0 /\ year' = 0
    /\ period_start' = <<>> /\ period_end' = 0 /\ period' = <<>>
    /\ period_list' = <<>> /\ files' = <<>> /\ file_i' = 0
    /\ kw_weights' = NoWeights /\ all_docs' = NoDocs
    /\ lang_i' = 0 /\ docs' = <<>> /\ cutoff' = 0 /\ corpus' = <<>>
    /\ agg_i' = 0
    /\ n_detect' = 0 /\ n_analyze' = 0 /\ closed' = EmptyMap
    /\ bucket' = <<>> /\ hist' = EmptyMap /\ hist_of' = <<>>
    /\ run' = run + 1

\* the process is terminated; the script is invoked again
Crash ==
    /\ pc \notin {"start", "done"}
    /\ run < MaxRuns
    /\ Reset
    /\ crashed' = TRUE
    /\ UNCHANGED <<evars, rvars>>
    /\ UNCHANGED <<inputs, disk, csv_at_start>>

\* the script is invoked again after a completed run
Rerun ==
    /\ pc = "done"
    /\ run < MaxRuns
    /\ Reset
    /\ UNCHANGED <<evars, rvars>>
    /\ UNCHANGED <<inputs, disk, crashed, csv_at_start>>

Next ==
    \/ Startup
    \/ Discover
    \/ Start
    \/ YearStep
    \/ Classify
    \/ BeginLang
    \/ Batch
    \/ Persist
    \/ EndOfYears
    \/ Aggregate
    \/ Crash
    \/ Rerun

Spec == Init /\ [][Next]_vars

(***************************************************************************)
(* The engine run on its own: analyze(text, ...) then get_weights()        *)
(***************************************************************************)
ControllerOff ==
    /\ corpus_files = <<>>
    /\ is_dir = TRUE /\ has_replace = TRUE /\ has_md = TRUE
    /\ period_size = 1
    /\ replace_terms = <<>>
    /\ csv = EmptyMap /\ pkl = EmptyMap /\ output_dir = FALSE
    /\ Fresh
    /\ pc = "start"
    /\ run = 0 /\ crashed = FALSE /\ csv_at_start = EmptyMap

InitEngine ==
    /\ ControllerOff
    /\ ReaderOff
    /\ e_pc = "analyze"
    /\ e_text \in Texts
    /\ e_window \in WindowSizes
    /\ e_lower \in BOOLEAN
    /\ e_bigrams \in BOOLEAN
    /\ e_trigrams \in BOOLEAN
    /\ e_stopwords \in StopwordLists
    /\ lexeme_stop = {}
    /\ calls = 1
    /\ prev = NoPrev
    /\ EngineFresh

\* lines 31-33: the lexemes flagged after set_stopwords(stopwords)
set_stopwords(flags, stopwords) == flags \cup STOP_WORDS \cup stopwords

\* lines 139-149: set_stopwords, tagging, sentence_segment
Segment ==
    /\ e_pc = "analyze"
    /\ lexeme_stop' = set_stopwords(lexeme_stop, e_stopwords)
    /\ e_doc' = Tag(e_text, lexeme_stop')
    /\ sentences' = sentence_segment(e_doc', CandidatePos, e_lower, e_bigrams, e_trigrams)
    /\ e_pc' = "vocab"
    /\ UNCHANGED <<cvars, rvars, e_stopwords, calls, prev, e_text, e_window, e_lower, e_bigrams, e_trigrams,
                   vocab, token_pairs, g_norm, pr, previous_pr, epoch,
                   node_weight, e_weights>>

\* lines 151-155: vocabulary and token pairs
BuildVocab ==
    /\ e_pc = "vocab"
    /\ vocab' = get_vocab(sentences)
    /\ token_pairs' = get_token_pairs(e_window, sentences)
    /\ e_pc' = "matrix"
    /\ UNCHANGED <<cvars, rvars, ecall, e_text, e_window, e_lower, e_bigrams, e_trigrams,
                   sentences, g_norm, pr, previous_pr, epoch, node_weight,
                   e_weights>>

\* lines 157-164: normalized matrix, initial ranks
BuildMatrix ==
    /\ e_pc = "matrix"
    /\ \E junk \in JunkValues :
          /\ HasZeroColumn(vocab, token_pairs) \/ junk = Fin(0, 1)
          /\ g_norm' = get_matrix(vocab, token_pairs, junk)
    /\ pr' = [i \in 1..Len(vocab) |-> Fin(1, 1)]
    /\ previous_pr' = Fin(0, 1)
    /\ epoch' = 0
    /\ e_pc' = "iterate"
    /\ UNCHANGED <<cvars, rvars, ecall, e_text, e_window, e_lower, e_bigrams, e_trigrams,
                   sentences, vocab, token_pairs, node_weight, e_weights>>

\* a test that never finds the sums close
ConvergedNever(previous, total) == FALSE

\* line 167: abs(previous_pr - sum(pr)) < self.min_diff
Converged(previous, total) == FLt(FAbs(FSub(previous, total)), min_diff)

\* lines 165-170: one pass of `for epoch in range(self.steps)`
Iterate ==
    /\ e_pc = "iterate"
    /\ epoch < steps
    /\ LET new == Update(g_norm, pr)
           total == FSum(new)
       IN  /\ pr' = new
           /\ IF Converged(previous_pr, total)
              THEN /\ e_pc' = "collect"
                   /\ UNCHANGED previous_pr
              ELSE /\ previous_pr' = total
                   /\ UNCHANGED e_pc
    /\ epoch' = epoch + 1
    /\ UNCHANGED <<cvars, rvars, ecall, e_text, e_window, e_lower, e_bigrams, e_trigrams,
                   sentences, vocab, token_pairs, g_norm, node_weight, e_weights>>

\* line 165 exhausted
IterateEnd ==
    /\ e_pc = "iterate"
    /\ epoch >= steps
    /\ e_pc' = "collect"
    /\ UNCHANGED <<cvars, rvars, ecall, e_text, e_window, e_lower, e_bigrams, e_trigrams,
                   sentences, vocab, token_pairs, g_norm, pr, previous_pr,
                   epoch, node_weight, e_weights>>

\* lines 172-177
Collect ==
    /\ e_pc = "collect"
    /\ node_weight' = [t \in {vocab[i] : i \in 1..Len(vocab)} |->
                          pr[CHOOSE i \in 1..Len(vocab) : vocab[i] = t]]
    /\ e_pc' = "analyzed"
    /\ UNCHANGED <<cvars, rvars, ecall, e_text, e_window, e_lower, e_bigrams, e_trigrams,
                   sentences, vocab, token_pairs, g_norm, pr, previous_pr,
                   epoch, e_weights>>

\* lines 114-124
GetWeights ==
    /\ e_pc = "analyzed"
    /\ e_weights' = get_weights(node_weight)
    /\ e_pc' = "returned"
    /\ UNCHANGED <<cvars, rvars, ecall, e_text, e_window, e_lower, e_bigrams, e_trigrams,
                   sentences, vocab, token_pairs, g_norm, pr, previous_pr,
                   epoch, node_weight>>

\* analyze is called again on the same engine with the same text and
\* configuration, and the default stopwords=list()
Reanalyze ==
    /\ e_pc = "returned"
    /\ calls < MaxCalls
    /\ NTokens(e_text, Len(e_text)) <= MaxRepeatTokens
    /\ calls' = calls + 1
    /\ e_stopwords' = {}
    /\ prev' = [doc |-> e_doc, weights |-> e_weights]
    /\ e_pc' = "analyze"
    /\ e_doc' = <<>>
    /\ sentences' = <<>> /\ vocab' = <<>> /\ token_pairs' = {}
    /\ g_norm' = <<>> /\ pr' = <<>> /\ previous_pr' = Fin(0, 1) /\ epoch' = 0
    /\ e_weights' = EmptyMap
    /\ UNCHANGED <<cvars, rvars, lexeme_stop, e_text, e_window, e_lower, e_bigrams,
                   e_trigrams, node_weight>>

NextEngine ==
    \/ Reanalyze
    \/ Segment
    \/ BuildVocab
    \/ BuildMatrix
    \/ Iterate
    \/ IterateEnd
    \/ Collect
    \/ GetWeights

SpecEngine == InitEngine /\ [][NextEngine]_vars

(***************************************************************************)
(* get_replace_dict_from_file run on its own                               *)
(***************************************************************************)
MaxRows == 3

\* A cell is the sequence of its characters; a row is the list of cells
\* csv.reader yields for one line: [] for a blank line, [''] for the line
\* `""`, ['', 'b'] for the line `,b`.
Cells == {<<>>, <<"a">>, <<"b">>, <<"#", "a">>}
Rows ==
    {<<>>}
        \cup {<<c>> : c \in Cells}
        \cup {<<c, d>> : c \in {<<>>, <<"a">>, <<"#", "a">>}, d \in {<<>>, <<"b">>}}
        \cup {<<<<"a">>, <<"b">>, <<"a">>>>}
RowFiles == UNION {[1..n -> Rows] : n \in 0..MaxRows}

\* replace_terms_dict[key] = value on an insertion-ordered dict
SetItem(d, key, value) ==
    IF \E k \in 1..Len(d) : d[k][1] = key
    THEN [k \in 1..Len(d) |-> IF d[k][1] = key THEN <<key, value>> ELSE d[k]]
    ELSE Append(d, <<key, value>>)

InitReplace ==
    /\ ControllerOff
    /\ EngineOff
    /\ r_pc = "read"
    /\ r_rows \in RowFiles
    /\ r_i = 1
    /\ replace_terms_dict = <<>>

\* lines 244-246: one turn of  for row in reader
ReadRow ==
    /\ r_pc = "read"
    /\ r_i <= Len(r_rows)
    /\ LET row == r_rows[r_i] IN
        IF row = <<>>
        THEN \* row[0] on an empty list: IndexError
            /\ r_pc' = "raised"
            /\ UNCHANGED <<r_i, replace_terms_dict>>
        ELSE
            /\ replace_terms_dict' =
                   IF row[1] # <<>>
                   THEN SetItem(replace_terms_dict, row[1],
                                IF Len(row) > 1 THEN row[2] ELSE <<>>)
                   ELSE replace_terms_dict
            /\ r_i' = r_i + 1
            /\ UNCHANGED r_pc
    /\ UNCHANGED <<cvars, evars, r_rows>>

\* line 247: return replace_terms_dict
ReadReturn ==
    /\ r_pc = "read"
    /\ r_i > Len(r_rows)
    /\ r_pc' = "returned"
    /\ UNCHANGED <<cvars, evars, r_rows, r_i, replace_terms_dict>>

NextReplace ==
    \/ ReadRow
    \/ ReadReturn

SpecReplace == InitReplace /\ [][NextReplace]_vars

(***************************************************************************)
(* Properties                                                              *)
(***************************************************************************)
LoopOver == pc \in {"aggregate", "done"}

Smaller(a, b) == IF a < b THEN a ELSE b

\* the labels of the consecutive ranges of `size` years that cover lo..hi,
\* the last one cut at hi
RECURSIVE PartitionLabels(_, _, _)
PartitionLabels(lo, hi, size) ==
    IF lo > hi THEN <<>>
    ELSE <<Label(lo, Smaller(lo + size - 1, hi))>>
         \o PartitionLabels(lo + size, hi, size)

\* C1: once the year loop is over, period_list holds the labels of the
\* contiguous ranges of period_size years that cover year_min..year_max
\* without gap or overlap, the trailing partial period included under its
\* real range.
C1_Partition ==
    LoopOver => period_list = PartitionLabels(year_min, year_max, period_size)

\* C2: in an invocation that follows only completed invocations, no
\* language is detected, no corpus is ranked, and the per-period tables
\* stay what they were when it started.
C2_Idempotent ==
    (run >= 1 /\ ~crashed /\ pc # "start") =>
        /\ n_detect = 0
        /\ n_analyze = 0
        /\ csv = csv_at_start

\* a bucket yields a keyword when a file of the language keeps a word
BucketYields(fs, lang) ==
    \E i \in 1..Len(fs) :
        /\ fs[i].lang = lang
        /\ get_words_from_file(fs[i], replace_terms) # <<>>

\* C3: when an invocation runs to its end, also after terminated ones,
\* every period/language bucket it closed that yields a keyword has its
\* table on disk.
C3_Recovered ==
    pc = "done" =>
        \A p \in DOMAIN closed : \A lang \in {"de", "en"} :
            BucketYields(closed[p], lang) => <<p, lang>> \in DOMAIN csv

\* C4: a table that was on disk when an invocation started is still there
\* with the same content, and the invocation classifies and ranks only
\* periods that had no table when it started.
C4_NoRecompute ==
    /\ \A f \in DOMAIN csv_at_start :
          f \in DOMAIN csv /\ csv[f] = csv_at_start[f]
    /\ pc \in {"classify", "nextlang", "batch"} =>
          \A lang \in {"de", "en"} : <<period, lang>> \notin DOMAIN csv_at_start

C4_Witness ==
    /\ run >= 1
    /\ pc = "done"
    /\ \E p \in DOMAIN closed : \E lang \in {"de", "en"} :
          <<p, lang>> \in DOMAIN csv_at_start
    /\ \E p \in DOMAIN closed : \A lang \in {"de", "en"} :
          <<p, lang>> \notin DOMAIN csv_at_start /\ <<p, "en">> \in DOMAIN csv

\* C5: the table written for a period/language gives every keyword the
\* mean of its weights over the sub-batches in which it appeared.
C5_Average ==
    (hist_of # <<>> /\ hist_of \in DOMAIN csv) =>
        csv[hist_of] = [kw \in DOMAIN hist |-> Mean(hist[kw])]

\* C6: when no document of the bucket is longer than the cutoff, the corpus
\* handed to the engine is not longer than the cutoff.
C6_Bounded ==
    (/\ pc = "batch"
     /\ \A i \in 1..Len(bucket) : CharLen(bucket[i]) <= cutoff) =>
        CharLen(corpus) <= cutoff

AggregatedClean ==
    \A lang \in DOMAIN pkl : \A kw \in DOMAIN pkl[lang] :
        kw \notin Keys(replace_terms)

Columns(grid) == UNION {DOMAIN grid[kw] : kw \in DOMAIN grid}

EndToEndCorpus ==
    /\ Len(years_files[1990]) = 2
    /\ Len(years_files[1991]) = 1
    /\ \A y \in Years : \A i \in 1..Len(years_files[y]) :
          /\ y \in {1990, 1991}
          /\ years_files[y][i].lang = "en"
          /\ get_words_from_file(years_files[y][i], replace_terms) # <<>>
    /\ period_size = 1

\* C8: three English documents dated 1990, 1990, 1991, period_size = 1, one
\* batch per period, empty output directory: the run writes exactly
\* 1990-en.csv and 1991-en.csv and the matrix has exactly the columns 1990
\* and 1991.
C8_EndToEnd ==
    (/\ EndToEndCorpus
     /\ run = 0
     /\ pc = "done"
     /\ n_analyze <= Cardinality(DOMAIN closed)) =>
        /\ DOMAIN csv = {<< <<1990>>, "en" >>, << <<1991>>, "en" >>}
        /\ "en" \in DOMAIN pkl
        /\ Columns(pkl["en"]) = {<<1990>>, <<1991>>}

\* the raw score of a term: pr at the term's vocabulary index
RawScore(t) == pr[CHOOSE i \in 1..Len(vocab) : vocab[i] = t]

\* C9: the weight get_weights returns for a term is 4 times its raw score
\* when the term has two words, 6 times when it has three, and the raw
\* score itself when it has one; every vocabulary term is returned.
C9_Scaling ==
    e_pc = "returned" =>
        /\ DOMAIN e_weights = {vocab[i] : i \in 1..Len(vocab)}
        /\ \A t \in DOMAIN e_weights :
              /\ Len(t) = 1 => e_weights[t] = RawScore(t)
              /\ Len(t) = 2 => e_weights[t] = FMul(Fin(4, 1), RawScore(t))
              /\ Len(t) = 3 => e_weights[t] = FMul(Fin(6, 1), RawScore(t))
              /\ Len(t) \in {1, 2, 3}

C9_Witness ==
    /\ e_pc = "returned"
    /\ \A n \in {1, 2, 3} : \E t \in DOMAIN e_weights :
          /\ Len(t) = n
          /\ ~IsNaN(RawScore(t)) /\ RawScore(t).n > 0
          /\ n > 1 => e_weights[t] # RawScore(t)

\* C10: with window_size >= 2 every weight the engine returns is finite and
\* not negative, also for a term without neighbour.
C10_FiniteNonNegative ==
    (e_pc = "returned" /\ e_window >= 2) =>
        \A t \in DOMAIN e_weights : ~IsNaN(e_weights[t]) /\ e_weights[t].n >= 0

\* the tokens of the analysed text, as tagged
Tokens == UNION {{e_doc[s][i] : i \in 1..Len(e_doc[s])} : s \in 1..Len(e_doc)}

\* the texts, as sentence_segment appends them, of the tokens that pass the
\* candidate filter
CandidateTexts ==
    {IF e_lower THEN LowerAtom(tok.text) ELSE tok.text :
        tok \in {t \in Tokens : t.pos \in CandidatePos /\ ~t.is_stop}}

\* C11: the terms the engine returns are terms of the vocabulary, and every
\* word of a returned term is the text of a token whose part of speech is a
\* candidate one and which is no stop word.
C11_Filtered ==
    e_pc = "returned" =>
        /\ DOMAIN e_weights \subseteq {vocab[i] : i \in 1..Len(vocab)}
        /\ \A t \in DOMAIN e_weights :
              /\ Len(t) >= 1
              /\ \A k \in 1..Len(t) : t[k] \in CandidateTexts

C11_Witness ==
    /\ e_pc = "returned"
    /\ \E t \in DOMAIN e_weights : Len(t) = 2
    /\ \E tok \in Tokens : tok.is_stop \/ tok.pos \notin CandidatePos

\* C12: when no token of the text passes the candidate filter, the
\* vocabulary is empty, the iteration is left in its first pass, and the
\* mapping get_weights returns is empty.
C12_EmptyVocabulary ==
    (CandidateTexts = {}) =>
        /\ e_pc \in {"matrix", "iterate", "collect", "analyzed", "returned"}
              => vocab = <<>>
        /\ e_pc = "iterate" => epoch = 0
        /\ e_pc \in {"analyzed", "returned"} => node_weight = EmptyMap
        /\ e_pc = "returned" => e_weights = EmptyMap

C12_Witness ==
    /\ e_pc = "returned"
    /\ CandidateTexts = {}
    /\ Tokens # {}
    /\ epoch = 1

\* the documents of the first n files of fs that are detected as lang
Routed(fs, n, lang) ==
    LET picked == SelectSeq(SubSeq(fs, 1, n), LAMBDA f : f.lang = lang)
    IN  [i \in 1..Len(picked) |-> get_words_from_file(picked[i], replace_terms)]

\* C13: while the files of a period are classified, each language list
\* holds the documents of the files seen so far that were detected as that
\* language and nothing else; a run ends at a file only when its text is
\* empty, never for its language; no word of a document of an unsupported
\* language is a row of a table.
C13_UnsupportedSkipped ==
    /\ pc = "classify" =>
          \A lang \in {"de", "en"} : all_docs[lang] = Routed(files, file_i - 1, lang)
    /\ (pc = "aborted" /\ n_detect > 0) =>
          get_words_from_file(files[file_i], replace_terms) = <<>>
    /\ \A f \in DOMAIN csv : \A kw \in DOMAIN csv[f] : \A k \in 1..Len(kw) :
          kw[k] # "loi"

C13_Witness ==
    /\ <<period, "en">> \in DOMAIN csv
    /\ period \in DOMAIN closed
    /\ Len(closed[period]) = 2
    /\ closed[period][1].lang = "fr"
    /\ closed[period][2].lang = "en"
    /\ n_detect = 2

\* the documents of the corpus files that are filed under year y
FiledUnder(y) ==
    LET picked == SelectSeq(corpus_files, LAMBDA f : YearOf(f) = y)
    IN  [i \in 1..Len(picked) |-> picked[i].doc]

\* C14: the year lookup never ends the run at a file that has a year
\* neither in the metadata table nor in its identifier, and once the
\* lookup is over years_files holds every other file under its year.
C14_NoYearSkipped ==
    /\ (pc = "aborted" /\ disc_i \in 1..Len(corpus_files)) =>
          YearOf(corpus_files[disc_i]) # 0
    /\ pc \in {"years", "classify", "nextlang", "batch", "aggregate", "done"} =>
          \A y \in Years : years_files[y] = FiledUnder(y)

\* C15: when the corpus path is no directory, or the replacement file or
\* the metadata file is missing, the run ends at the start-up checks: the
\* output directory is not created, no file is looked up, loaded or
\* classified, nothing is ranked and no table or matrix is written.
C15_FailFast ==
    (~is_dir \/ ~has_replace \/ ~has_md) =>
        /\ pc \in {"start", "aborted"}
        /\ output_dir = FALSE
        /\ csv = EmptyMap /\ pkl = EmptyMap
        /\ disc_i = 0 /\ years_files = NoFiles /\ file_i = 0
        /\ n_detect = 0 /\ n_analyze = 0

C15_Witness ==
    /\ pc = "aborted"
    /\ is_dir /\ has_replace /\ ~has_md
    /\ run = 1

\* every cell of an aggregated matrix is the weight of its keyword in the
\* table of its period and language
MatrixFromTables ==
    \A lang \in DOMAIN pkl : \A kw \in DOMAIN pkl[lang] :
        \A p \in DOMAIN pkl[lang][kw] :
            /\ <<p, lang>> \in DOMAIN csv
            /\ kw \in DOMAIN csv[<<p, lang>>]
            /\ pkl[lang][kw][p] = csv[<<p, lang>>][kw]

Skipped ==
    {p \in DOMAIN closed : \E lang \in {"de", "en"} : <<p, lang>> \in DOMAIN csv_at_start}

RECURSIVE FilesOf(_)
FilesOf(ps) ==
    IF ps = {} THEN 0
    ELSE LET p == CHOOSE q \in ps : TRUE
         IN  Len(closed[p]) + FilesOf(ps \ {p})

\* C17: a document is loaded and classified, and a corpus is ranked, only
\* for a period that was closed and whose check found no table; the
\* periods the check skipped account for no classification and no ranking.
C17_CheckFirst ==
    /\ [](/\ n_detect <= FilesOf(DOMAIN closed \ Skipped)
          /\ n_analyze <= FilesOf(DOMAIN closed \ Skipped))
    /\ [][(n_detect' > n_detect \/ n_analyze' > n_analyze) =>
            /\ period \in DOMAIN closed
            /\ period \notin Skipped
            /\ period' = period]_vars

C17_Witness ==
    /\ run >= 1
    /\ pc = "batch"
    /\ n_detect >= 1
    /\ n_analyze >= 1
    /\ \E p \in Skipped : p # period /\ Len(closed[p]) > 0

\* the languages of a period whose documents yield a table
Yielding(p) == {lang \in {"de", "en"} : BucketYields(closed[p], lang)}

\* C18: a closed period is skipped exactly when the table of every
\* language that has results for it is on disk: a skipped period lacks no
\* table of a language that has documents, and a period that has results
\* and all their tables is skipped.
C18_SkipGuard ==
    /\ \A p \in Skipped : \A lang \in Yielding(p) :
          <<p, lang>> \in DOMAIN csv_at_start
    /\ \A p \in DOMAIN closed :
          (/\ Yielding(p) # {}
           /\ \A lang \in Yielding(p) : <<p, lang>> \in DOMAIN csv_at_start)
              => p \in Skipped

\* C19: while the sub-batches of a period/language are analysed its table
\* is not on disk, a termination in that phase leaves none, and a table
\* that is on disk was written when no document of the bucket was left and
\* has a row for every keyword of every sub-batch.
C19_NoPartial ==
    /\ [](pc = "batch" =>
            /\ hist_of = <<period, Langs[lang_i]>>
            /\ hist_of \notin DOMAIN csv)
    /\ []((hist_of # <<>> /\ hist_of \in DOMAIN csv) =>
            /\ Len(docs) = 0
            /\ DOMAIN csv[hist_of] = DOMAIN hist)
    /\ [][(pc = "batch" /\ pc' = "start") =>
            <<period, Langs[lang_i]>> \notin DOMAIN csv']_vars

C19_Witness ==
    /\ pc = "batch"
    /\ Len(docs) > 0
    /\ hist # EmptyMap
    /\ n_analyze >= 1
    /\ hist_of \notin DOMAIN csv

\* the terms (lower-cased words) of the documents of period p detected as
\* lang, as the loader hands them over
TermsOf(p, lang) ==
    UNION {{Lower(w) : w \in {get_words_from_file(closed[p][i], replace_terms)[k] :
                k \in 1..Len(get_words_from_file(closed[p][i], replace_terms))}} :
           i \in {j \in 1..Len(closed[p]) : closed[p][j].lang = lang}}

\* C20: every row of the table of a period and language is a term of a
\* document of that period detected as that language.
C20_OwnTerms ==
    \A f \in DOMAIN csv :
        f[1] \in DOMAIN closed =>
            \A kw \in DOMAIN csv[f] : kw \in TermsOf(f[1], f[2])

\* analyze has built its matrix
MatrixBuilt == e_pc \in {"iterate", "collect", "analyzed", "returned"}

\* the symmetrized adjacency matrix of the run, before normalization
Adjacency == symmetrize(RawMatrix(vocab, token_pairs))

\* C21: in the normalized matrix a column whose sum is not zero holds the
\* adjacency entries divided by that sum, and a column whose sum is zero
\* holds only zeros.
C21_Normalized ==
    MatrixBuilt =>
        \A i, j \in 1..Len(vocab) :
            g_norm[i][j] = IF Norm(Adjacency)[j] # 0
                           THEN Fin(Adjacency[i][j], Norm(Adjacency)[j])
                           ELSE Fin(0, 1)

\* terms a and b stand within the window of each other in some sentence,
\* in either order
CoOccur(a, b) ==
    \E s \in 1..Len(sentences) : \E i, j \in 1..Len(sentences[s]) :
        /\ i < j /\ j <= i + e_window - 1
        /\ \/ sentences[s][i] = a /\ sentences[s][j] = b
           \/ sentences[s][i] = b /\ sentences[s][j] = a

\* C22: before normalization the matrix is symmetric, every entry is 0 or
\* 1, and the entry of two terms is 1 exactly when they co-occurred within
\* the window in some sentence.
C22_Presence ==
    MatrixBuilt =>
        \A i, j \in 1..Len(vocab) :
            /\ Adjacency[i][j] = Adjacency[j][i]
            /\ Adjacency[i][j] \in {0, 1}
            /\ Adjacency[i][j] = 1 <=> CoOccur(vocab[i], vocab[j])

\* the term of the n tokens of sentence sent from position i on
TermAt(sent, i, n) ==
    [k \in 1..n |-> IF e_lower THEN LowerAtom(sent[i + k - 1].text)
                    ELSE sent[i + k - 1].text]

\* every n adjacent tokens of a sentence that all pass the filter give
\* their n-word term as a candidate of the sentence
HasNGrams(n) ==
    \A s \in 1..Len(e_doc) : \A i \in 1..(Len(e_doc[s]) - (n - 1)) :
        (\A k \in 0..(n - 1) : Qualifies(e_doc[s][i + k], CandidatePos)) =>
            \E c \in 1..Len(sentences[s]) :
                sentences[s][c] = TermAt(e_doc[s], i, n)

\* C23: with bigrams enabled every adjacent pair of qualifying tokens gives
\* its two-word term (case-folded with lower), with trigrams enabled every
\* three adjacent qualifying tokens give their three-word term.
C23_NGrams ==
    e_pc # "analyze" =>
        /\ e_bigrams => HasNGrams(2)
        /\ e_trigrams => HasNGrams(3)

\* C24: token_pairs holds the pair (s[i], s[j]) exactly for the positions
\* i < j <= i + window_size - 1 of one sentence's candidate sequence s.
C24_TokenPairs ==
    e_pc \notin {"analyze", "vocab"} =>
        /\ \A tp \in token_pairs :
              \E s \in 1..Len(sentences) : \E i, j \in 1..Len(sentences[s]) :
                  /\ i < j /\ j - i <= e_window - 1
                  /\ tp = <<sentences[s][i], sentences[s][j]>>
        /\ \A s \in 1..Len(sentences) : \A i, j \in 1..Len(sentences[s]) :
              (i < j /\ j - i <= e_window - 1) =>
                  <<sentences[s][i], sentences[s][j]>> \in token_pairs

C24_Witness ==
    /\ e_pc = "matrix"
    /\ e_window = 2
    /\ Len(sentences) = 2
    /\ Len(sentences[1]) = 3 /\ Len(sentences[2]) = 1
    /\ <<sentences[1][1], sentences[1][3]>> \notin token_pairs
    /\ <<sentences[1][3], sentences[2][1]>> \notin token_pairs
    /\ Cardinality(token_pairs) = 2

\* C25: the iteration is left after at least 1 and at most `steps` score
\* updates; previous_pr is the sum of the scores after the previous update
\* (0 before the first); the loop is left at an update exactly when the
\* absolute change of the sum is below min_diff, and otherwise only after
\* update number `steps`.
C25_IterationControl ==
    /\ [](e_pc \in {"collect", "analyzed", "returned"} =>
            (1 <= epoch /\ epoch <= steps))
    /\ [](e_pc = "iterate" =>
            /\ epoch <= steps
            /\ epoch = 0 => previous_pr = Fin(0, 1)
            /\ epoch >= 1 => previous_pr = FSum(pr))
    /\ [][(e_pc = "iterate" /\ epoch' = epoch + 1) =>
            (e_pc' = "collect" <=>
                FLt(FAbs(FSub(previous_pr, FSum(pr'))), min_diff))]_vars
    /\ [][(e_pc = "iterate" /\ e_pc' = "collect" /\ epoch' = epoch) =>
            epoch = steps]_vars

C25_Witness ==
    /\ e_pc = "collect"
    /\ epoch = 2
    /\ Len(vocab) = 3
    /\ previous_pr = Fin(3, 1)

\* C29: when the vocabulary is not empty and no column of the adjacency
\* matrix sums to zero, the scores sum to the vocabulary size after every
\* update and the iteration is left at its second update.
C29_TwoUpdates ==
    (/\ MatrixBuilt
     /\ vocab # <<>>
     /\ \A j \in 1..Len(vocab) : Norm(Adjacency)[j] # 0) =>
        /\ FSum(pr) = Fin(Len(vocab), 1)
        /\ e_pc = "iterate" => epoch <= 1
        /\ e_pc # "iterate" => epoch = 2

C29_Witness ==
    /\ e_pc = "returned"
    /\ epoch = 2
    /\ Len(vocab) = 3
    /\ \A j \in 1..Len(vocab) : Norm(Adjacency)[j] # 0
    /\ \E i \in 1..Len(vocab) : pr[i] # Fin(1, 1)

\* the corpus string of a sub-batch that holds the documents ds
RECURSIVE Joined(_)
Joined(ds) == IF ds = <<>> THEN <<>> ELSE Concat(Joined(SubSeq(ds, 1, Len(ds) - 1)), ds[Len(ds)])

PlainDoc == Tag(e_text, STOP_WORDS)

\* C26: a later analyze call with an empty stop-word list tags and selects
\* the tokens as an engine does that was never given an additional stop
\* word: the words passed to an earlier call are candidates again.
C26_StopwordsScoped ==
    (calls >= 2 /\ e_stopwords = {} /\ e_pc # "analyze") =>
        /\ e_doc = PlainDoc
        /\ sentences = sentence_segment(PlainDoc, CandidatePos, e_lower,
                                        e_bigrams, e_trigrams)

\* C30: an analyze run on the same tagged sentences and with the same
\* configuration as the run before returns the same mapping.
C30_Deterministic ==
    (calls >= 2 /\ e_pc = "returned" /\ e_doc = prev.doc) =>
        e_weights = prev.weights

\* The rows the replacement file is specified to ignore: those whose first
\* cell begins with `#` and those with no non-empty cell.
Ignored(row) ==
    \/ \A k \in 1..Len(row) : row[k] = <<>>
    \/ Len(row) > 0 /\ row[1] # <<>> /\ row[1][1] = "#"

RECURSIVE ExpectedDict(_, _)
ExpectedDict(rows, n) ==
    IF n = 0 THEN <<>>
    ELSE IF Ignored(rows[n]) THEN ExpectedDict(rows, n - 1)
    ELSE SetItem(ExpectedDict(rows, n - 1), rows[n][1],
                 IF Len(rows[n]) > 1 THEN rows[n][2] ELSE <<>>)

\* C27: reading the replacement file raises no error, and the dictionary it
\* returns has no entry for a row whose first cell begins with `#` or for a
\* fully empty row, and maps column 1 to column 2 (or to the empty string
\* when column 2 is missing) for every other row.
C27_ReplaceParsing ==
    /\ r_pc # "raised"
    /\ r_pc = "returned" => replace_terms_dict = ExpectedDict(r_rows, Len(r_rows))


=============================================================================
